---- MODULE Spec2Model ----
(***************************************************************************)
(* AQueue (src/src/queue/mod.rs): an asynchronous task queue in which the  *)
(* callers of run/ref_run push their own task and one of them, elected by  *)
(* a compare-and-swap on `state`, pops and drives the queued tasks.        *)
(*                                                                         *)
(* Every atomic operation of push/run_ing is one step of the caller that   *)
(* performs it; pc[c] is the caller's position in the code.  The atomics   *)
(* are modelled sequentially consistent.  QueueItem (mod item) is not part *)
(* of the sources at hand; it is modelled from the description of the Task *)
(* Wrapper: drive the computation, send its result once through the paired *)
(* channel, report a failed send as an error.                              *)
(***************************************************************************)
EXTENDS Naturals, Sequences, FiniteSets

\* ----------------------------------------------------------------- bounds
NumCallers == 2
MaxTasks == 3

\* -------------------------------------------------------------- constants
IDLE == 0
OPEN == 1

Callers == 1..NumCallers
Tasks == 1..MaxTasks
Kinds == {"ok", "err"}

VARIABLES
    deque,   \* AQueue.deque: the queued items, oldest first (task ids)
    state,   \* AQueue.state: IDLE or OPEN
    lock,    \* AQueue.lock: IDLE or OPEN
    pc,      \* pc[c]: where caller c stands in run/push/run_ing
    mine,    \* mine[c]: the task whose receiver (rx) caller c holds, 0 = none
    cur,     \* cur[c]: the item the runner c has popped (local `item`), 0 = none
    ret,     \* ret[c]: what c's latest call of run/ref_run returned
    nextId,  \* the number of tasks pushed so far + 1 (a task's id is its push rank)
    owner,   \* owner[t]: the caller that submitted task t, 0 = not submitted
    kind,    \* kind[t]: what t's computation has yielded, Ok(v_t) or Err(E_t)
    comp,    \* comp[t]: "new", "running", "done", or "dropped" (dropped mid-run)
    chan,    \* chan[t]: the one-shot channel of t: "open", a sent value, or "closed"
    rx,      \* rx[t]: the receiver of t: "alive", "resolved" or "dropped"
    polls,   \* polls[t]: how many times t has been started
    won,     \* won[c]: c's current or latest call won the election of run_ing
    alive,   \* the AQueue exists (it has not been dropped)
    resolved \* resolved[t]: how many times t's receiver has resolved

vars == <<deque, state, lock, pc, mine, cur, ret, nextId, owner, kind, comp,
          chan, rx, polls, resolved, won, alive>>

engineVars == <<deque, state, lock>>
taskVars == <<owner, kind, comp, chan, rx, polls, resolved>>

\* ------------------------------------------------------------------ values
NoRet == [kind |-> "none", task |-> 0]
Open == [st |-> "open", kind |-> "none", task |-> 0]
Closed == [st |-> "closed", kind |-> "none", task |-> 0]

\* The value task t's computation yields: Ok(v_t) (k = "ok") or the domain
\* error Err(E_t) (k = "err").
Result(t, k) == [kind |-> k, task |-> t]

\* tx.send(result) of the task wrapper: the state of t's channel afterwards.
Sent(t, k) == [st |-> "sent", kind |-> Result(t, k).kind, task |-> Result(t, k).task]

\* tx.send(result) fails when the receiver of t has been dropped; the wrapper
\* then completes with an error.
SendFails(t) == rx[t] = "dropped"

\* Dropping caller c's receiver (the future of push is left or dropped).
DropRx(c) == [rx EXCEPT ![mine[c]] = IF @ = "alive" THEN "dropped" ELSE @]

Init ==
    /\ deque = <<>>
    /\ state = IDLE
    /\ lock = IDLE
    /\ pc = [c \in Callers |-> "idle"]
    /\ mine = [c \in Callers |-> 0]
    /\ cur = [c \in Callers |-> 0]
    /\ ret = [c \in Callers |-> NoRet]
    /\ nextId = 1
    /\ owner = [t \in Tasks |-> 0]
    /\ kind = [t \in Tasks |-> "none"]
    /\ comp = [t \in Tasks |-> "new"]
    /\ chan = [t \in Tasks |-> Open]
    /\ rx = [t \in Tasks |-> "alive"]
    /\ polls = [t \in Tasks |-> 0]
    /\ won = [c \in Callers |-> FALSE]
    /\ alive = TRUE
    /\ resolved = [t \in Tasks |-> 0]

\* ----------------------------------------------------------------- actions

\* run / ref_run: QueueItem::new(call(arg)), then push: self.deque.push(item).
Submit(c) ==
    /\ pc[c] = "idle"
    /\ alive
    /\ nextId <= MaxTasks
    /\ deque' = Append(deque, nextId)
    /\ owner' = [owner EXCEPT ![nextId] = c]
    /\ mine' = [mine EXCEPT ![c] = nextId]
    /\ ret' = [ret EXCEPT ![c] = NoRet]
    /\ nextId' = nextId + 1
    /\ won' = [won EXCEPT ![c] = FALSE]
    /\ pc' = [pc EXCEPT ![c] = "spin"]
    /\ UNCHANGED <<state, lock, cur, kind, comp, chan, rx, polls, resolved, alive>>

\* push: while self.lock.load(Relaxed) == OPEN { spin_loop() }
Spin(c) ==
    /\ pc[c] = "spin"
    /\ lock # OPEN
    /\ pc' = [pc EXCEPT ![c] = "cas"]
    /\ UNCHANGED <<engineVars, mine, cur, ret, nextId, taskVars, won, alive>>

\* Mutant of Cas: a plain store of OPEN, whatever `state` holds.
Cas_Blind(c) ==
    /\ pc[c] = "cas"
    /\ state' = OPEN
    /\ won' = [won EXCEPT ![c] = TRUE]
    /\ pc' = [pc EXCEPT ![c] = "lock_open"]
    /\ UNCHANGED <<deque, lock, mine, cur, ret, nextId, taskVars, alive>>

\* run_ing: self.state.compare_exchange(IDLE, OPEN, ..) == Ok(IDLE); on failure
\* run_ing returns Ok(()) and push goes on to rx.await.
Cas(c) ==
    /\ pc[c] = "cas"
    /\ IF state = IDLE
       THEN /\ state' = OPEN
            /\ won' = [won EXCEPT ![c] = TRUE]
            /\ pc' = [pc EXCEPT ![c] = "lock_open"]
       ELSE /\ state' = state
            /\ won' = won
            /\ pc' = [pc EXCEPT ![c] = "await_rx"]
    /\ UNCHANGED <<deque, lock, mine, cur, ret, nextId, taskVars, alive>>

\* run_ing, head of 'recv: self.lock.store(OPEN, Release)
LockOpen(c) ==
    /\ pc[c] = "lock_open"
    /\ lock' = OPEN
    /\ pc' = [pc EXCEPT ![c] = "pop"]
    /\ UNCHANGED <<deque, state, mine, cur, ret, nextId, taskVars, won, alive>>

\* Mutant of Pop: the newest item is taken instead of the oldest.
Pop_Last(c) ==
    /\ pc[c] = "pop"
    /\ IF deque = <<>>
       THEN /\ pc' = [pc EXCEPT ![c] = "state_idle"]
            /\ UNCHANGED <<deque, cur>>
       ELSE /\ cur' = [cur EXCEPT ![c] = deque[Len(deque)]]
            /\ deque' = SubSeq(deque, 1, Len(deque) - 1)
            /\ pc' = [pc EXCEPT ![c] = "lock_idle"]
    /\ UNCHANGED <<state, lock, mine, ret, nextId, taskVars, won, alive>>

\* run_ing: match self.deque.pop() { Ok(p) => p, _ => break 'recv }
Pop(c) ==
    /\ pc[c] = "pop"
    /\ IF deque = <<>>
       THEN /\ pc' = [pc EXCEPT ![c] = "state_idle"]
            /\ UNCHANGED <<deque, cur>>
       ELSE /\ cur' = [cur EXCEPT ![c] = Head(deque)]
            /\ deque' = Tail(deque)
            /\ pc' = [pc EXCEPT ![c] = "lock_idle"]
    /\ UNCHANGED <<state, lock, mine, ret, nextId, taskVars, won, alive>>

\* Mutant of LockIdle: the flag is not cleared after a successful pop.
LockIdle_Skip(c) ==
    /\ pc[c] = "lock_idle"
    /\ pc' = [pc EXCEPT ![c] = "drive"]
    /\ UNCHANGED <<engineVars, mine, cur, ret, nextId, taskVars, won, alive>>

\* Mutant of LockIdle: the store after the pop goes to `state` instead of `lock`.
LockIdle_WrongField(c) ==
    /\ pc[c] = "lock_idle"
    /\ state' = IDLE
    /\ pc' = [pc EXCEPT ![c] = "drive"]
    /\ UNCHANGED <<deque, lock, mine, cur, ret, nextId, taskVars, won, alive>>

\* run_ing, after a successful pop: self.lock.store(IDLE, Release)
LockIdle(c) ==
    /\ pc[c] = "lock_idle"
    /\ lock' = IDLE
    /\ pc' = [pc EXCEPT ![c] = "drive"]
    /\ UNCHANGED <<deque, state, mine, cur, ret, nextId, taskVars, won, alive>>

\* Mutant of DriveStart: the runner gives `state` back before it suspends on
\* the item.
DriveStart_Releases(c) ==
    /\ pc[c] = "drive"
    /\ comp' = [comp EXCEPT ![cur[c]] = "running"]
    /\ polls' = [polls EXCEPT ![cur[c]] = @ + 1]
    /\ state' = IDLE
    /\ pc' = [pc EXCEPT ![c] = "driving"]
    /\ UNCHANGED <<deque, lock, mine, cur, ret, nextId, owner, kind, chan, rx, resolved, won, alive>>

\* run_ing: item.await, the first poll: the computation of the item starts.
DriveStart(c) ==
    /\ pc[c] = "drive"
    /\ comp' = [comp EXCEPT ![cur[c]] = "running"]
    /\ polls' = [polls EXCEPT ![cur[c]] = @ + 1]
    /\ pc' = [pc EXCEPT ![c] = "driving"]
    /\ UNCHANGED <<engineVars, mine, cur, ret, nextId, owner, kind, chan, rx, resolved, won, alive>>

\* Mutant of DriveFinish: a computation that yields Err(E) is taken for a failed
\* item, so `?` leaves the loop on a domain error.
DriveFinish_ErrAborts(c, k) ==
    /\ pc[c] = "driving"
    /\ comp' = [comp EXCEPT ![cur[c]] = "done"]
    /\ kind' = [kind EXCEPT ![cur[c]] = k]
    /\ cur' = [cur EXCEPT ![c] = 0]
    /\ IF SendFails(cur[c]) \/ k = "err"
       THEN /\ chan' = chan
            /\ ret' = [ret EXCEPT ![c] = [kind |-> "send_failed", task |-> cur[c]]]
            /\ rx' = DropRx(c)
            /\ pc' = [pc EXCEPT ![c] = "idle"]
       ELSE /\ chan' = [chan EXCEPT ![cur[c]] = Sent(cur[c], k)]
            /\ pc' = [pc EXCEPT ![c] = "lock_open"]
            /\ UNCHANGED <<ret, rx>>
    /\ UNCHANGED <<engineVars, mine, nextId, owner, polls, resolved, won, alive>>

\* Mutant of DriveFinish: the error path resets `state` before it returns.
DriveFinish_ResetsState(c, k) ==
    /\ pc[c] = "driving"
    /\ comp' = [comp EXCEPT ![cur[c]] = "done"]
    /\ kind' = [kind EXCEPT ![cur[c]] = k]
    /\ cur' = [cur EXCEPT ![c] = 0]
    /\ IF SendFails(cur[c])
       THEN /\ chan' = chan
            /\ ret' = [ret EXCEPT ![c] = [kind |-> "send_failed", task |-> cur[c]]]
            /\ rx' = DropRx(c)
            /\ state' = IDLE
            /\ pc' = [pc EXCEPT ![c] = "idle"]
       ELSE /\ chan' = [chan EXCEPT ![cur[c]] = Sent(cur[c], k)]
            /\ pc' = [pc EXCEPT ![c] = "lock_open"]
            /\ UNCHANGED <<ret, rx, state>>
    /\ UNCHANGED <<deque, lock, mine, nextId, owner, polls, resolved, won, alive>>

\* run_ing: item.await?  completes: the computation has yielded its result k
\* and the wrapper sends it.  A send to a dropped receiver fails, the item yields
\* Err, and `?` returns it from run_ing and then from push (line 81), which
\* drops the caller's own rx.  Otherwise the loop goes round.
DriveFinish(c, k) ==
    /\ pc[c] = "driving"
    /\ comp' = [comp EXCEPT ![cur[c]] = "done"]
    /\ kind' = [kind EXCEPT ![cur[c]] = k]
    /\ cur' = [cur EXCEPT ![c] = 0]
    /\ IF SendFails(cur[c])
       THEN /\ chan' = chan
            /\ ret' = [ret EXCEPT ![c] = [kind |-> "send_failed", task |-> cur[c]]]
            /\ rx' = DropRx(c)
            /\ pc' = [pc EXCEPT ![c] = "idle"]
       ELSE /\ chan' = [chan EXCEPT ![cur[c]] = Sent(cur[c], k)]
            /\ pc' = [pc EXCEPT ![c] = "lock_open"]
            /\ UNCHANGED <<ret, rx>>
    /\ UNCHANGED <<engineVars, mine, nextId, owner, polls, resolved, won, alive>>

\* run_ing, after the loop: self.state.store(IDLE, Release)
StateIdle(c) ==
    /\ pc[c] = "state_idle"
    /\ state' = IDLE
    /\ pc' = [pc EXCEPT ![c] = "lock_idle2"]
    /\ UNCHANGED <<deque, lock, mine, cur, ret, nextId, taskVars, won, alive>>

\* Mutant of LockIdle2: the flag is not cleared after the loop.
LockIdle2_Skip(c) ==
    /\ pc[c] = "lock_idle2"
    /\ pc' = [pc EXCEPT ![c] = "await_rx"]
    /\ UNCHANGED <<engineVars, mine, cur, ret, nextId, taskVars, won, alive>>

\* run_ing, after the loop: self.lock.store(IDLE, Release); run_ing returns Ok(()).
LockIdle2(c) ==
    /\ pc[c] = "lock_idle2"
    /\ lock' = IDLE
    /\ pc' = [pc EXCEPT ![c] = "await_rx"]
    /\ UNCHANGED <<deque, state, mine, cur, ret, nextId, taskVars, won, alive>>

\* Mutant of AwaitRx: the receiver is not awaited; an unsent result is taken
\* for Ok.
AwaitRx_NoWait(c) ==
    /\ pc[c] = "await_rx"
    /\ ret' = [ret EXCEPT ![c] =
                 IF chan[mine[c]].st = "sent"
                 THEN [kind |-> chan[mine[c]].kind, task |-> chan[mine[c]].task]
                 ELSE IF chan[mine[c]].st = "open"
                 THEN [kind |-> "ok", task |-> mine[c]]
                 ELSE [kind |-> "tx_closed", task |-> mine[c]]]
    /\ rx' = [rx EXCEPT ![mine[c]] = "resolved"]
    /\ resolved' = [resolved EXCEPT ![mine[c]] = @ + 1]
    /\ pc' = [pc EXCEPT ![c] = "idle"]
    /\ UNCHANGED <<engineVars, mine, cur, nextId, owner, kind, comp, chan, polls, won, alive>>

\* push: rx.await.map_err(|_| anyhow!("tx is close"))?  resolves: with the value
\* sent, or with the error when the sender was dropped without sending.
AwaitRx(c) ==
    /\ pc[c] = "await_rx"
    /\ chan[mine[c]].st # "open"
    /\ ret' = [ret EXCEPT ![c] =
                 IF chan[mine[c]].st = "sent"
                 THEN [kind |-> chan[mine[c]].kind, task |-> chan[mine[c]].task]
                 ELSE [kind |-> "tx_closed", task |-> mine[c]]]
    /\ rx' = [rx EXCEPT ![mine[c]] = "resolved"]
    /\ resolved' = [resolved EXCEPT ![mine[c]] = @ + 1]
    /\ pc' = [pc EXCEPT ![c] = "idle"]
    /\ UNCHANGED <<engineVars, mine, cur, nextId, owner, kind, comp, chan, polls, won, alive>>

\* The caller's future is dropped while it is suspended at rx.await: the
\* receiver is abandoned.
Abandon(c) ==
    /\ pc[c] = "await_rx"
    /\ rx' = DropRx(c)
    /\ ret' = [ret EXCEPT ![c] = [kind |-> "abandoned", task |-> 0]]
    /\ pc' = [pc EXCEPT ![c] = "idle"]
    /\ UNCHANGED <<engineVars, mine, cur, nextId, owner, kind, comp, chan, polls, resolved, won, alive>>

\* The runner's future is dropped while it is suspended at item.await: the
\* popped item is dropped with its sender, and so is the runner's own rx.
\* Nothing resets `state`.
DropDriving(c) ==
    /\ pc[c] = "driving"
    /\ comp' = [comp EXCEPT ![cur[c]] = "dropped"]
    /\ chan' = [chan EXCEPT ![cur[c]] = Closed]
    /\ cur' = [cur EXCEPT ![c] = 0]
    /\ rx' = DropRx(c)
    /\ ret' = [ret EXCEPT ![c] = [kind |-> "abandoned", task |-> 0]]
    /\ pc' = [pc EXCEPT ![c] = "idle"]
    /\ UNCHANGED <<engineVars, mine, nextId, owner, kind, polls, resolved, won, alive>>

\* The items still in the store: the tasks queued and not popped.
Queued == {deque[i] : i \in 1..Len(deque)}

\* Mutant of Discard: the items of the store are leaked, not dropped; their
\* senders stay alive.
Discard_Leak ==
    /\ alive
    /\ \A c \in Callers : pc[c] \in {"idle", "await_rx"}
    /\ alive' = FALSE
    /\ deque' = <<>>
    /\ UNCHANGED <<state, lock, pc, mine, cur, ret, nextId, taskVars, won>>

\* The AQueue is dropped.  It has no Drop of its own: its fields are dropped,
\* and the ConcurrentQueue drops the items it still holds, each with its sender,
\* unpolled.  No caller is inside the code that reads the engine's fields: a
\* caller is outside run, or suspended at rx.await, after which push touches
\* only its receiver.  (The borrow `&self` of a pending future forbids even the
\* latter unless the reference's lifetime was erased, as ref_run's caller may.)
Discard ==
    /\ alive
    /\ \A c \in Callers : pc[c] \in {"idle", "await_rx"}
    /\ alive' = FALSE
    /\ chan' = [t \in Tasks |-> IF t \in Queued THEN Closed ELSE chan[t]]
    /\ deque' = <<>>
    /\ UNCHANGED <<state, lock, pc, mine, cur, ret, nextId, owner, kind, comp,
                   rx, polls, resolved, won>>

\* Mutant of PushRejected: the error of deque.push is ignored and push goes on
\* to the flag-wait.
PushRejected_Ignored(c) ==
    /\ pc[c] = "idle"
    /\ alive
    /\ ret' = [ret EXCEPT ![c] = [kind |-> "push_failed", task |-> 0]]
    /\ won' = [won EXCEPT ![c] = FALSE]
    /\ pc' = [pc EXCEPT ![c] = "spin"]
    /\ UNCHANGED <<engineVars, mine, cur, nextId, taskVars, alive>>

\* run / ref_run, push: self.deque.push(item) returns Err and `?` returns it
\* (line 75).  The item comes back inside the error and is dropped with it; the
\* receiver is dropped with the frame of push.  ConcurrentQueue::push fails
\* only on a closed queue, and nothing in mod.rs closes the deque: the
\* rejection is taken as an outcome of the store, which the code handles.
PushRejected(c) ==
    /\ pc[c] = "idle"
    /\ alive
    /\ ret' = [ret EXCEPT ![c] = [kind |-> "push_failed", task |-> 0]]
    /\ won' = [won EXCEPT ![c] = FALSE]
    /\ pc' = pc
    /\ UNCHANGED <<engineVars, mine, cur, nextId, taskVars, alive>>

\* The steps of a caller that drives its call to the end.
Step(c) ==
    \/ Submit(c)
    \/ Spin(c)
    \/ Cas(c)
    \/ LockOpen(c)
    \/ Pop(c)
    \/ LockIdle(c)
    \/ DriveStart(c)
    \/ \E k \in Kinds : DriveFinish(c, k)
    \/ StateIdle(c)
    \/ LockIdle2(c)
    \/ AwaitRx(c)

Next ==
    \E c \in Callers : Step(c) \/ Abandon(c) \/ DropDriving(c)

Spec == Init /\ [][Next]_vars

\* The callers together with what their surroundings may do to the engine:
\* drop it, or have its store reject a push.
NextEnv ==
    \/ Next
    \/ Discard
    \/ \E c \in Callers : PushRejected(c)

SpecEnv == Init /\ [][NextEnv]_vars

\* Every caller keeps its future alive until it returns.
NextKept == \E c \in Callers : Step(c)

SpecKept == Init /\ [][NextKept]_vars

\* The steps of run_ing that neither suspend nor wait: the stores of `lock`
\* and `state` and the pop.  Driving a task is not among them: a computation
\* may take any time, or never finish.
RunnerStep(c) ==
    \/ LockOpen(c)
    \/ Pop(c)
    \/ LockIdle(c)
    \/ StateIdle(c)
    \/ LockIdle2(c)

\* A thread inside run_ing goes on to its next store or pop, and a spinning
\* thread goes on reading `lock`.
FairSpec ==
    /\ Init /\ [][Next]_vars
    /\ \A c \in Callers : WF_vars(RunnerStep(c)) /\ WF_vars(Spin(c))

\* ------------------------------------------------------------ vocabulary
Submitted == 1..(nextId - 1)

\* The positions between a successful compare-and-swap of `state` and the
\* store that resets it (run_ing, lines 88-100): the caller is Draining.
DrainingPcs == {"lock_open", "pop", "lock_idle", "drive", "driving", "state_idle"}
Draining(c) == pc[c] \in DrainingPcs

\* Caller c waits on a receiver nothing has been sent to.
Blocked(c) == pc[c] = "await_rx" /\ chan[mine[c]].st = "open"

\* No caller inside run/ref_run can take a step.
Quiescent == \A c \in Callers : pc[c] = "idle" \/ Blocked(c)

\* ---------------------------------------------------------------- claims

\* C1: at most one submitted computation is being driven (started and not yet
\* completed) at any instant, whatever the interleaving of the callers.
C1_OneRunning == Cardinality({t \in Tasks : comp[t] = "running"}) <= 1

\* A task is being driven while another caller is inside run with its own task
\* at the head of the store.
C1_Witness ==
    \E c \in Callers, d \in Callers :
        /\ c # d
        /\ pc[c] = "driving"
        /\ comp[cur[c]] = "running"
        /\ pc[d] \in {"cas", "await_rx"}
        /\ deque # <<>>
        /\ Head(deque) = mine[d]

\* C2: tasks complete in push order across callers and runners: when a task
\* has been started, every task pushed before it has run to completion.
C2_PushOrder ==
    \A t1 \in Tasks, t2 \in Tasks :
        (t1 < t2 /\ polls[t2] > 0) => comp[t1] = "done"

\* The runner has changed between two tasks: d, whose call won an election,
\* has left its drain loop with its own task t1 done, and c, elected after it,
\* drives its own task t2, pushed after t1.
C2_Witness ==
    \E c \in Callers, d \in Callers :
        /\ c # d
        /\ won[d]
        /\ pc[d] \in {"lock_idle2", "await_rx", "idle"}
        /\ comp[mine[d]] = "done"
        /\ pc[c] = "driving"
        /\ cur[c] = mine[c]
        /\ comp[mine[c]] = "running"
        /\ mine[d] < mine[c]

\* C3 (no lost wakeups), as a property of the final states: when no caller
\* abandons its call and no caller can take a step any more, every call has
\* returned its task's result, every receiver has resolved, and no task is left
\* in the store.
C3_NoLostWakeup ==
    Quiescent =>
        /\ \A t \in Submitted : resolved[t] = 1
        /\ \A c \in Callers : mine[c] # 0 => (pc[c] = "idle" /\ ret[c].kind \in Kinds)
        /\ deque = <<>>

\* C4 (exactly-once delivery): an accepted task is driven at most once, its
\* receiver resolves at most once, it never both ran to completion and had its
\* channel fail, and once no caller can take a step its receiver has resolved
\* and one of the two has happened.
C4_ExactlyOnce ==
    \A t \in Submitted :
        /\ polls[t] <= 1
        /\ resolved[t] <= 1
        /\ ~(comp[t] = "done" /\ chan[t].st = "closed")
        /\ Quiescent =>
              /\ resolved[t] = 1
              /\ comp[t] = "done" \/ chan[t].st = "closed"

\* C5: at most one caller is Draining, that is between its successful
\* compare-and-swap of `state` and its reset of `state` to IDLE; and `state`
\* is OPEN while a caller is Draining.
C5_OneDraining ==
    /\ Cardinality({c \in Callers : Draining(c)}) <= 1
    /\ \A c \in Callers : Draining(c) => state = OPEN

\* A caller is Draining while another one is about to attempt the election.
C5_Witness ==
    \E c \in Callers, d \in Callers :
        c # d /\ Draining(c) /\ pc[d] = "cas" /\ deque # <<>>

\* Task t has been driven to completion.
Finished(t) == comp[t] = "done"

\* C6 (return to Idle): when every submitted task has run to completion and no
\* caller is inside run/ref_run, `state` and `lock` are IDLE; and a fresh
\* submission arriving then finds `state` IDLE at its election, drives its own
\* task and is never left waiting.
C6_ReturnToIdle ==
    /\ ((\A c \in Callers : pc[c] = "idle") /\ (\A t \in Submitted : Finished(t)))
          => (state = IDLE /\ lock = IDLE)
    /\ \A c \in Callers :
          ( /\ \A d \in Callers \ {c} : pc[d] = "idle"
            /\ \A t \in Submitted \ {mine[c]} : Finished(t)
            /\ mine[c] # 0
            /\ comp[mine[c]] # "dropped" )
          => /\ pc[c] = "cas" => state = IDLE
             /\ pc[c] = "driving" => cur[c] = mine[c]
             /\ ~Blocked(c)

\* C7 (error isolation): a call returns an engine-level error only about the
\* caller's own submission: its own task's sender was dropped without sending.
\* A runner is never handed the error of driving another caller's task.
C7_ErrorIsolation ==
    \A c \in Callers :
        ret[c].kind \in {"send_failed", "tx_closed"} =>
            (ret[c].kind = "tx_closed" /\ ret[c].task = mine[c])

\* C8: when a driven task finishes and its send fails because the receiver
\* was abandoned, the runner stays in its drain loop and goes on to the next pop.
C8_LoopContinues ==
    [][\A c \in Callers :
          (pc[c] = "driving" /\ rx[cur[c]] = "dropped" /\ comp'[cur[c]] = "done")
              => pc'[c] = "lock_open"]_vars

\* C9: a computation that yields Err(E) is a normal delivery: Err(E) is sent
\* through the task's channel, the runner stays in its drain loop with the
\* store untouched, and the submitting caller's call returns Err(E).
C9_DomainError ==
    [][\A c \in Callers :
          /\ ( /\ pc[c] = "driving"
               /\ rx[cur[c]] # "dropped"
               /\ comp'[cur[c]] = "done"
               /\ kind'[cur[c]] = "err" )
             => /\ chan'[cur[c]] = [st |-> "sent", kind |-> "err", task |-> cur[c]]
                /\ pc'[c] = "lock_open"
                /\ state' = OPEN
                /\ deque' = deque
          /\ ( /\ pc[c] = "await_rx"
               /\ kind[mine[c]] = "err"
               /\ comp[mine[c]] = "done"
               /\ resolved'[mine[c]] = resolved[mine[c]] + 1 )
             => ret'[c] = [kind |-> "err", task |-> mine[c]]]_vars

\* A caller that lost the election has received its Err(E), and a task queued
\* behind its own has been driven to completion too.
C9_Witness ==
    \E c \in Callers, t \in Tasks :
        /\ pc[c] = "idle"
        /\ mine[c] # 0
        /\ ~won[c]
        /\ ret[c] = [kind |-> "err", task |-> mine[c]]
        /\ mine[c] < t
        /\ comp[t] = "done"

\* C10 (result routing): a value returned by run/ref_run is the result of the
\* caller's own computation, returned after that computation ran to
\* completion, whichever caller drove it.
C10_Routing ==
    \A c \in Callers :
        ret[c].kind \in Kinds =>
            /\ ret[c].task = mine[c]
            /\ ret[c].kind = kind[mine[c]]
            /\ comp[mine[c]] = "done"

\* Two callers have their own results: c, whose call lost the election, so
\* that another caller drove its task, and d, whose call won it.
C10_Witness ==
    \E c \in Callers, d \in Callers :
        /\ c # d
        /\ ret[c].kind \in Kinds
        /\ ret[d].kind \in Kinds
        /\ ~won[c]
        /\ won[d]


\* C11: if the engine is discarded while tasks are still queued and unrun, the
\* sender of every such task is dropped without sending: the task's channel is
\* closed, the task is never started, and a caller still waiting for it
\* can resolve, and resolves with the delivery failure ("tx is close").
C11_DiscardFailsReceivers ==
    [][ /\ (alive /\ ~alive') =>
              \A t \in Queued :
                  chan'[t] = Closed /\ comp'[t] = "new" /\ polls'[t] = 0
        /\ ~alive =>
              /\ \A t \in Submitted :
                    comp[t] = "new" =>
                        /\ chan[t] = Closed
                        /\ polls[t] = 0
                        /\ comp'[t] = "new"
                        /\ polls'[t] = 0
              /\ \A c \in Callers :
                    (pc[c] = "await_rx" /\ comp[mine[c]] = "new") =>
                        /\ ~Blocked(c)
                        /\ pc'[c] = "idle" /\ resolved' # resolved =>
                              ret'[c] = [kind |-> "tx_closed", task |-> mine[c]]
      ]_vars

\* The engine was discarded with a caller's task queued and unrun, and the
\* caller, still waiting, got the delivery failure for it.
C11_Witness ==
    \E c \in Callers :
        /\ ~alive
        /\ pc[c] = "idle"
        /\ mine[c] # 0
        /\ ret[c] = [kind |-> "tx_closed", task |-> mine[c]]
        /\ comp[mine[c]] = "new"
        /\ polls[mine[c]] = 0
        /\ resolved[mine[c]] = 1

\* C12: when the store rejects a push, the submission returns the push failure
\* at once: the caller stays outside push (no flag-wait, no election, no await
\* of the receiver), and the store, `state`, `lock` and every task are as they
\* were.
C12_PushFailureFrame ==
    [][ \A c \in Callers :
          /\ (ret'[c].kind = "push_failed" /\ ret[c].kind # "push_failed") =>
                /\ pc[c] = "idle"
                /\ pc' = pc
                /\ UNCHANGED <<engineVars, taskVars, nextId, cur, mine>>
          /\ ret[c].kind = "push_failed" => pc[c] = "idle"
      ]_vars

\* A push was rejected while another caller was draining a non-empty store.
C12_Witness ==
    \E c \in Callers, d \in Callers :
        /\ c # d
        /\ ret[c].kind = "push_failed"
        /\ pc[c] = "idle"
        /\ Draining(d)
        /\ deque # <<>>

\* C13: a just-pushed task is never missed: whenever `state` is IDLE and no
\* caller stands between its push and its election attempt, the store is empty.
C13_NeverMissed ==
    (state = IDLE /\ \A c \in Callers : pc[c] \notin {"spin", "cas"}) =>
        deque = <<>>

\* A pop cycle of runner d is mid-flight: d has set the flag and its pop has
\* not resolved, or it has popped empty and not yet reset `state`.
MidPop(d) == pc[d] \in {"pop", "state_idle"}

\* C14: whenever a submitting caller reads the flag as false and leaves the
\* busy-wait, no pop cycle is mid-flight at that instant.
C14_FlagWaitCoversPop ==
    [][ \A c \in Callers :
          (pc[c] = "spin" /\ pc'[c] = "cas") =>
              \A d \in Callers : ~MidPop(d)
      ]_vars

\* The positions from the store that sets the flag to the store of the same
\* runner that clears it: lines 90-96 on a successful pop, lines 90-101 on an
\* empty one.
FlagHeldPcs == {"pop", "lock_idle", "state_idle", "lock_idle2"}

\* C15 as stated: whenever the flag is true, the caller that holds Draining has
\* set it and its pop has not resolved, and `state` is not IDLE.
C15_FlagOnlyMidPop ==
    lock = OPEN =>
        /\ state = OPEN
        /\ \E c \in Callers : Draining(c) /\ pc[c] = "pop"

\* C15, amended: whenever the flag is true, a caller that won the election has
\* set it and has not yet reached its own store that clears it: its pop is
\* pending, or has resolved (with a task, or empty) with the clearing store
\* still ahead; and when `state` is IDLE besides, that caller has popped empty
\* and reset `state` and stands before line 101.
C15_FlagUntilCleared ==
    lock = OPEN =>
        /\ \E c \in Callers : won[c] /\ pc[c] \in FlagHeldPcs
        /\ state = IDLE => \E c \in Callers : won[c] /\ pc[c] = "lock_idle2"

\* The flag is true while `state` is IDLE: the runner has popped empty and
\* reset `state`, and has not yet cleared the flag.
C15_Witness ==
    \E c \in Callers :
        /\ lock = OPEN
        /\ state = IDLE
        /\ pc[c] = "lock_idle2"
        /\ \A d \in Callers \ {c} : pc[d] \notin FlagHeldPcs

\* C16: `state` goes from OPEN to IDLE only at a loop boundary: every such
\* write is made by the caller that holds Draining, right after its own pop
\* returned empty, with no task popped or running; the loop is left only on an
\* empty pop; and a caller wins the election only when no other caller is
\* Draining and no task is popped or running, so the tasks of two runners
\* never interleave.
C16_IdleOnlyAtLoopEnd ==
    [][ /\ (state = OPEN /\ state' = IDLE) =>
              \E c \in Callers :
                  /\ won[c]
                  /\ pc[c] = "state_idle"
                  /\ pc'[c] = "lock_idle2"
                  /\ cur[c] = 0
                  /\ \A d \in Callers \ {c} : ~Draining(d)
                  /\ \A t \in Tasks : comp[t] # "running"
        /\ \A c \in Callers :
              (pc[c] # "state_idle" /\ pc'[c] = "state_idle") =>
                  pc[c] = "pop" /\ deque = <<>>
        /\ (state = IDLE /\ state' = OPEN) =>
              /\ \A d \in Callers : ~Draining(d) /\ cur[d] = 0
              /\ \A t \in Tasks : comp[t] # "running"
      ]_vars

\* A second runner has been elected and is popping while the previous runner,
\* which popped empty and reset `state`, has not yet cleared the flag.
C16_Witness ==
    \E c \in Callers, d \in Callers :
        /\ c # d
        /\ pc[d] = "lock_idle2"
        /\ won[c]
        /\ pc[c] = "pop"
        /\ state = OPEN

\* C17: the busy-wait on the flag terminates: when the runner keeps taking its
\* stores and pops, every spinning caller comes to read the flag as false and
\* goes on to its election attempt.  Nothing is assumed about the tasks: the
\* wait never depends on a task finishing.
C17_SpinTerminates ==
    \A c \in Callers : (pc[c] = "spin") ~> (pc[c] = "cas")

\* A caller spins on a set flag while the runner is within its pop cycle.
C17_Witness ==
    \E c \in Callers, d \in Callers :
        /\ pc[c] = "spin"
        /\ lock = OPEN
        /\ pc[d] \in FlagHeldPcs

\* C18: the flag is never true while a task is being driven: whenever some
\* task is started and not completed, or the runner is at item.await, the flag
\* is false.
C18_FlagClearWhileDriving ==
    ((\E t \in Tasks : comp[t] = "running") \/
     (\E c \in Callers : pc[c] \in {"drive", "driving"})) =>
        lock = IDLE

\* A task is running while another caller, whose task is queued, has passed the
\* flag-wait.
C18_Witness ==
    \E c \in Callers, d \in Callers :
        /\ pc[c] = "driving"
        /\ comp[cur[c]] = "running"
        /\ pc[d] = "cas"
        /\ mine[d] \in Queued
        /\ lock = IDLE

\* `state` is OPEN and no caller is Draining: nothing will reset it.
Wedged == state = OPEN /\ \A c \in Callers : ~Draining(c)

\* C19: when the item the runner drives completes with a failed send, run_ing
\* returns at once: the runner is out of run with that error, its own receiver
\* dropped and never resolved, `state` left OPEN with no caller Draining; and
\* from then on `state` stays so, no task is started or popped, and every
\* election attempt fails.
C19_FailedSendWedges ==
    [][ /\ \A c \in Callers :
              (pc[c] = "driving" /\ SendFails(cur[c]) /\ comp'[cur[c]] = "done") =>
                  /\ pc'[c] = "idle"
                  /\ ret'[c] = [kind |-> "send_failed", task |-> cur[c]]
                  /\ resolved' = resolved
                  /\ rx'[mine[c]] = "dropped"
                  /\ Wedged'
        /\ Wedged =>
              /\ Wedged'
              /\ polls' = polls
              /\ comp' = comp
              /\ alive' => \A t \in Queued : t \in Queued'
              /\ \A c \in Callers :
                    (pc[c] = "cas" /\ pc'[c] # "cas") =>
                        pc'[c] = "await_rx" /\ ~won'[c]
      ]_vars

\* The runner returned the error of a failed send; a task pushed since sits in
\* the store, its caller lost the election and waits on its receiver.
C19_Witness ==
    \E c \in Callers, d \in Callers :
        /\ c # d
        /\ Wedged
        /\ pc[c] = "idle"
        /\ ret[c].kind = "send_failed"
        /\ Blocked(d)
        /\ ~won[d]
        /\ mine[d] \in Queued
        /\ mine[d] > ret[c].task

\* C20: a caller that won the election stays in the loop when its own task has
\* completed; it pops whatever is at the head of the store, whoever pushed it;
\* it leaves the loop only when its own pop found the store empty, reaches
\* rx.await only through the reset of `state`, and returns from run (its future
\* not being dropped) only from rx.await, that is, only after that reset.
C20_WinnerDrainsOn ==
    [][ \A c \in Callers :
          /\ (pc[c] = "driving" /\ ~SendFails(cur[c]) /\ comp'[cur[c]] = "done") =>
                pc'[c] = "lock_open" /\ state' = OPEN
          /\ (pc[c] = "pop" /\ pc'[c] # "pop" /\ deque # <<>>) =>
                pc'[c] = "lock_idle" /\ cur'[c] = Head(deque)
          /\ (pc[c] # "state_idle" /\ pc'[c] = "state_idle") =>
                pc[c] = "pop" /\ deque = <<>>
          /\ (pc[c] # "lock_idle2" /\ pc'[c] = "lock_idle2") =>
                pc[c] = "state_idle" /\ state' = IDLE
          /\ (won[c] /\ pc[c] # "await_rx" /\ pc'[c] = "await_rx") =>
                pc[c] = "lock_idle2"
          /\ (won[c] /\ pc[c] # "idle" /\ pc'[c] = "idle" /\ ret'[c].kind # "abandoned") =>
                pc[c] = "await_rx"
      ]_vars

====
